---- MODULE Spec2Model ----
(***************************************************************************)
(* A model of the crossword CSP solver of project3/crossword/generate.py   *)
(* (class CrosswordCreator): node consistency, revise, AC-3, the           *)
(* assignment validator and the backtracking search with its two           *)
(* heuristics.                                                             *)
(*                                                                         *)
(* Words are sequences of letters.  Python indexes words from 0, TLA+      *)
(* from 1: an overlap (k, l) is kept 0-based as in the code and read as    *)
(* word[k + 1].                                                            *)
(***************************************************************************)
EXTENDS Integers, Sequences, FiniteSets, TLC

\* ------------------------------------------------------------------------
\* Bounds of the model
\* ------------------------------------------------------------------------

\* Largest number of words in the vocabulary.
MaxVocab == 2

\* Largest number of variables of a puzzle.
MaxVars == 3

\* The alphabet of the vocabulary.
Letters == {"a", "b"}

\* ------------------------------------------------------------------------
\* Generic helpers
\* ------------------------------------------------------------------------

None == "None"

Max(a, b) == IF a >= b THEN a ELSE b

\* The elements of a sequence.
Range(s) == {s[n] : n \in 1..Len(s)}

\* All orderings of a finite set, as sequences without repetition.
Orderings(S) == {s \in [1..Cardinality(S) -> S] : Range(s) = S}

\* Every subset of S with at most n elements.
SubsetsUpTo(S, n) == {T \in SUBSET S : Cardinality(T) <= n}

\* ------------------------------------------------------------------------
\* Puzzle Model (crossword.Crossword and crossword.Variable; spec section 3)
\* ------------------------------------------------------------------------

ACROSS == "across"
DOWN == "down"

\* crossword.height: the number of rows of the grid.
Height == 2

\* crossword.width: the number of columns of the grid.
Width == 3

GridCells == (0..(Height - 1)) \X (0..(Width - 1))

\* Every word a vocabulary may hold: as long as some run of the grid can be.
WordUniverse == UNION {[1..n -> Letters] : n \in 2..Max(Height, Width)}

\* The cell k steps from (i, j) in a direction.
CellAt(i, j, direction, k) ==
    IF direction = DOWN THEN <<i + k, j>> ELSE <<i, j + k>>

\* The number of playable cells in a row, in one direction, from (i, j) on.
RECURSIVE RunLength(_, _, _, _)
RunLength(structure, i, j, direction) ==
    IF <<i, j>> \notin structure
    THEN 0
    ELSE 1 + RunLength(structure, CellAt(i, j, direction, 1)[1],
                       CellAt(i, j, direction, 1)[2], direction)

\* A word starts at a playable cell whose predecessor is blocked or off the grid.
StartsWord(structure, i, j, direction) ==
    /\ <<i, j>> \in structure
    /\ CellAt(i, j, direction, -1) \notin structure

\* The variables of a structure: the maximal runs longer than one cell.
VariablesOf(structure) ==
    {[i |-> c[1], j |-> c[2], direction |-> d,
      length |-> RunLength(structure, c[1], c[2], d)] :
        <<c, d>> \in {<<c, d>> \in GridCells \X {ACROSS, DOWN} :
            /\ StartsWord(structure, c[1], c[2], d)
            /\ RunLength(structure, c[1], c[2], d) > 1}}

\* The cells of a variable, in word order.
CellsOf(v) == [k \in 1..v.length |-> CellAt(v.i, v.j, v.direction, k - 1)]

\* overlaps[x, y]: None, or the 0-based offsets (k, l) of the shared cell.
Overlap(x, y) ==
    LET shared == Range(CellsOf(x)) \cap Range(CellsOf(y))
    IN  IF shared = {}
        THEN None
        ELSE LET c == CHOOSE c \in shared : TRUE
             IN  <<(CHOOSE k \in 1..x.length : CellsOf(x)[k] = c) - 1,
                   (CHOOSE l \in 1..y.length : CellsOf(y)[l] = c) - 1>>

\* neighbors(var): a fresh set of the variables overlapping var.
Neighbors(variables, var) ==
    {v \in variables : v /= var /\ Overlap(v, var) /= None}

\* The structures of the grid with at most MaxVars variables.
Structures ==
    {s \in SUBSET GridCells : Cardinality(VariablesOf(s)) <= MaxVars}

\* Every puzzle of the bounds: a structure and a vocabulary.  A geometry
\* without variables and an empty vocabulary are rejected when the Puzzle
\* Model is built (spec section 7, MalformedInput).
Crosswords ==
    {[structure |-> s, words |-> w, variables |-> VariablesOf(s)] :
        s \in {s \in Structures : VariablesOf(s) /= {}},
        w \in SubsetsUpTo(WordUniverse, MaxVocab) \ {{}}}

\* ------------------------------------------------------------------------
\* State
\* ------------------------------------------------------------------------

VARIABLES
    crossword,   \* self.crossword: the Puzzle Model (immutable)
    domains,     \* self.domains: variable -> set of words
    pc,          \* position in solve()
    arcs_list,   \* ac3's worklist
    ac3_ret,     \* <<>> before ac3 returns, then a one-element tuple holding
                 \* what it returned
    stack,       \* the active calls of backtrack below the current one
    assignment,  \* the argument of the backtrack call being entered
    ret,         \* the value a backtrack call returned; at "done", solve()'s
                 \* (a one-element tuple holding the assignment, or the
                 \* empty tuple for None)
    call,        \* the last direct call of a method: its arguments, the
                 \* domains before it and what it returned
    board,       \* tictactoe: the board being played
    game,        \* minesweeper: Minesweeper.mines, the cells that hold a mine
    ai           \* minesweeper: the MinesweeperAI (moves_made, mines, safes,
                 \* knowledge)

vars == <<crossword, domains, pc, arcs_list, ac3_ret, stack, assignment, ret, call,
          board, game, ai>>

\* The variables of tictactoe and minesweeper, which the crossword solver
\* does not touch.
games == <<board, game, ai>>

\* tictactoe.py: X, O, EMPTY and initial_state().
X == "X"
O == "O"
EMPTY == "None"
initial_state == [cell \in (0..2) \X (0..2) |-> EMPTY]

\* MinesweeperAI.__init__: no move made, nothing known.
NewMinesweeperAI ==
    [moves_made |-> {}, mines |-> {}, safes |-> {}, knowledge |-> <<>>]

\* No game of tictactoe or minesweeper is being played.
NoGames ==
    /\ board = initial_state
    /\ game = {}
    /\ ai = NewMinesweeperAI

\* ac3 has not returned.
NotReturned == <<>>

\* backtrack returned None, or has not returned.
NoResult == <<>>

\* No method has been called directly.
NoCall == [op |-> None]

\* The empty assignment, dict().
EmptyAssignment == <<>>

\* ------------------------------------------------------------------------
\* Consistency Engine
\* ------------------------------------------------------------------------

\* __init__: every domain is a copy of the whole vocabulary.
InitDomains(cw) == [v \in cw.variables |-> cw.words]

\* A faulty variant of NodeConsistent: one word of the words to remove is removed per
\* variable and call.
NodeConsistentRemovesOne(doms) ==
    [v \in DOMAIN doms |->
        LET words_to_remove == {word \in doms[v] : Len(word) /= v.length}
        IN  IF words_to_remove = {}
            THEN doms[v]
            ELSE doms[v] \ {CHOOSE word \in words_to_remove : TRUE}]

\* A faulty variant of NodeConsistent: only the words that are too short are removed.
NodeConsistentKeepsLonger(doms) ==
    [v \in DOMAIN doms |->
        LET words_to_remove == {word \in doms[v] : Len(word) < v.length}
        IN  doms[v] \ words_to_remove]

\* A faulty variant of NodeConsistent: each domain is rebuilt from the
\* words of all the domains that have the variable's length.
NodeConsistentRebuilds(doms) ==
    [v \in DOMAIN doms |->
        {word \in UNION {doms[u] : u \in DOMAIN doms} : Len(word) = v.length}]

\* A faulty variant of NodeConsistent: only the words that are too long are
\* removed.
NodeConsistentKeepsShorter(doms) ==
    [v \in DOMAIN doms |->
        LET words_to_remove == {word \in doms[v] : Len(word) > v.length}
        IN  doms[v] \ words_to_remove]

\* enforce_node_consistency: per variable, collect the words of another
\* length and remove them.
NodeConsistent(doms) ==
    [v \in DOMAIN doms |->
        LET words_to_remove == {word \in doms[v] : Len(word) /= v.length}
        IN  doms[v] \ words_to_remove]

\* A faulty variant of WordsToRemove: a word of x is kept when some word of y differs
\* from it at the overlap.
WordsToRemoveInverted(doms, x, y) ==
    LET intersection == Overlap(x, y)
    IN  IF intersection = None
        THEN {}
        ELSE {wordx \in doms[x] :
                ~ \E wordy \in doms[y] :
                    wordx[intersection[1] + 1] /= wordy[intersection[2] + 1]}

\* A faulty variant of WordsToRemove: a word of x is kept only when a
\* different word of y has its letter at the overlap.
WordsToRemoveNeedsOtherWord(doms, x, y) ==
    LET intersection == Overlap(x, y)
    IN  IF intersection = None
        THEN {}
        ELSE {wordx \in doms[x] :
                ~ \E wordy \in doms[y] \ {wordx} :
                    wordx[intersection[1] + 1] = wordy[intersection[2] + 1]}

\* revise's words_to_remove: the words of x with no corresponding word of y.
WordsToRemove(doms, x, y) ==
    LET intersection == Overlap(x, y)
    IN  IF intersection = None
        THEN {}
        ELSE {wordx \in doms[x] :
                ~ \E wordy \in doms[y] :
                    wordx[intersection[1] + 1] = wordy[intersection[2] + 1]}

\* A faulty variant of Revise: True is returned whenever the variables overlap.
ReviseAlwaysTrue(doms, x, y) ==
    LET words_to_remove == WordsToRemove(doms, x, y)
    IN  [domains |-> [doms EXCEPT ![x] = @ \ words_to_remove],
         revised |-> Overlap(x, y) /= None]

\* revise(x, y): the new domains and the returned flag.
Revise(doms, x, y) ==
    LET words_to_remove == WordsToRemove(doms, x, y)
    IN  [domains |-> [doms EXCEPT ![x] = @ \ words_to_remove],
         revised |-> words_to_remove /= {}]

\* A faulty variant of ArcListsFrom: (var, neighbor) is appended whether
\* (neighbor, var) is listed or not.
RECURSIVE ArcListsFromBothDirections(_, _, _)
ArcListsFromBothDirections(variables, order, arcs) ==
    IF order = <<>>
    THEN {arcs}
    ELSE LET var == Head(order)
             new == {<<var, neighbor>> : neighbor \in Neighbors(variables, var)}
         IN  UNION {ArcListsFromBothDirections(variables, Tail(order), arcs \o appended) :
                        appended \in Orderings(new)}

\* ac3 with arcs = None: the variables and each variable's neighbours are
\* visited in the iteration order of a set, which the code does not fix;
\* (var, neighbor) is appended unless (neighbor, var) is already listed.
RECURSIVE ArcListsFrom(_, _, _)
ArcListsFrom(variables, order, arcs) ==
    IF order = <<>>
    THEN {arcs}
    ELSE LET var == Head(order)
             new == {<<var, neighbor>> : neighbor \in
                        {n \in Neighbors(variables, var) :
                            <<n, var>> \notin Range(arcs)}}
         IN  UNION {ArcListsFrom(variables, Tail(order), arcs \o appended) :
                        appended \in Orderings(new)}

InitialArcLists(variables) ==
    UNION {ArcListsFrom(variables, order, <<>>) : order \in Orderings(variables)}

\* ac3 after a revision that left domains[x] non-empty: the arcs appended,
\* in the iteration order of the neighbour set.
Requeued(variables, rest, x, y) ==
    Orderings({<<x, neighbor>> : neighbor \in
        {n \in Neighbors(variables, x) \ {y} :
            <<x, n>> \notin Range(rest) /\ <<n, x>> \notin Range(rest)}})

\* ------------------------------------------------------------------------
\* Assignment Validator
\* ------------------------------------------------------------------------

\* A faulty variant of AssignmentComplete: complete one variable early.
AssignmentCompleteOffByOne(cw, a) ==
    Cardinality(DOMAIN a) >= Cardinality(cw.variables) - 1

\* assignment_complete(assignment)
AssignmentComplete(cw, a) ==
    Cardinality(DOMAIN a) = Cardinality(cw.variables)

\* A faulty variant of Consistent: the conflicts between neighbours are not checked.
ConsistentNoConflicts(a) ==
    IF \E x, y \in DOMAIN a : x /= y /\ a[x] = a[y]
    THEN FALSE
    ELSE IF \E var \in DOMAIN a : var.length /= Len(a[var])
    THEN FALSE
    ELSE TRUE

\* A faulty variant of Consistent: the words are not checked to be distinct.
ConsistentNoDistinct(a) ==
    IF \E var \in DOMAIN a : var.length /= Len(a[var])
    THEN FALSE
    ELSE IF Cardinality(DOMAIN a) = 1
    THEN TRUE
    ELSE \A x, y \in DOMAIN a :
            (x /= y /\ Overlap(x, y) /= None) =>
                a[x][Overlap(x, y)[1] + 1] = a[y][Overlap(x, y)[2] + 1]

\* consistent(assignment): 1) the words are distinct, 2) every word has its
\* variable's length, then one variable alone is accepted, and otherwise
\* 3) every pair of assigned variables agrees at its overlap.  The code
\* reads overlaps[x, y] for each pair once, x before y in the order of the
\* dict; overlaps[y, x] holds the same offsets swapped.
Consistent(a) ==
    IF \E x, y \in DOMAIN a : x /= y /\ a[x] = a[y]
    THEN FALSE
    ELSE IF \E var \in DOMAIN a : var.length /= Len(a[var])
    THEN FALSE
    ELSE IF Cardinality(DOMAIN a) = 1
    THEN TRUE
    ELSE \A x, y \in DOMAIN a :
            (x /= y /\ Overlap(x, y) /= None) =>
                a[x][Overlap(x, y)[1] + 1] = a[y][Overlap(x, y)[2] + 1]

\* ------------------------------------------------------------------------
\* Backtracking Search
\* ------------------------------------------------------------------------

\* The sum of f over a finite set.
RECURSIVE SumOver(_, _)
SumOver(S, f) ==
    IF S = {}
    THEN 0
    ELSE LET e == CHOOSE e \in S : TRUE
         IN  f[e] + SumOver(S \ {e}, f)

\* A faulty variant of WordsEliminated: it counts the words of the other
\* variables that agree with wordx at the overlap.
WordsEliminatedCountsMatches(cw, doms, var, a, wordx) ==
    LET others == {random_var \in cw.variables :
                      /\ random_var /= var
                      /\ random_var \notin DOMAIN a
                      /\ Overlap(var, random_var) /= None}
        count == [random_var \in others |->
                    Cardinality({wordy \in doms[random_var] :
                        wordx[Overlap(var, random_var)[1] + 1]
                            = wordy[Overlap(var, random_var)[2] + 1]})]
    IN  SumOver(others, count)

\* order_domain_values' words_eliminated[wordx].
WordsEliminated(cw, doms, var, a, wordx) ==
    LET others == {random_var \in cw.variables :
                      /\ random_var /= var
                      /\ random_var \notin DOMAIN a
                      /\ Overlap(var, random_var) /= None}
        count == [random_var \in others |->
                    Cardinality({wordy \in doms[random_var] :
                        wordx[Overlap(var, random_var)[1] + 1]
                            /= wordy[Overlap(var, random_var)[2] + 1]})]
    IN  SumOver(others, count)

\* order_domain_values(var, assignment): the lists it may return.  A domain
\* of one word is returned as it is; otherwise the words, taken in the
\* iteration order of the set, are sorted (stably) by words_eliminated.
OrderDomainValues(cw, doms, var, a) ==
    IF Cardinality(doms[var]) = 1
    THEN Orderings(doms[var])
    ELSE {list_of_values \in Orderings(doms[var]) :
            \A m, n \in 1..Len(list_of_values) :
                m < n => WordsEliminated(cw, doms, var, a, list_of_values[m])
                            <= WordsEliminated(cw, doms, var, a, list_of_values[n])}

\* A faulty variant of SelectUnassignedVariable: of several variables with
\* the fewest words it returns the first of the sort by degree.
SelectUnassignedVariableLowestDegree(cw, doms, a) ==
    LET unassigned == cw.variables \ DOMAIN a
        less_words == CHOOSE n \in {Cardinality(doms[v]) : v \in unassigned} :
                        \A v \in unassigned : n <= Cardinality(doms[v])
        list_of_variables == {v \in unassigned : Cardinality(doms[v]) = less_words}
        degree(v) == Cardinality(Neighbors(cw.variables, v))
    IN  IF Cardinality(list_of_variables) = 1
        THEN list_of_variables
        ELSE {v \in list_of_variables :
                \A u \in list_of_variables : degree(v) <= degree(u)}

\* select_unassigned_variable(assignment): the variables it may return.
\* Among the unassigned variables with the fewest words, a single one is
\* returned; of several, the last of a stable sort by degree, which is any
\* of those with the largest degree, by the iteration order of the set.
SelectUnassignedVariable(cw, doms, a) ==
    LET unassigned == cw.variables \ DOMAIN a
        less_words == CHOOSE n \in {Cardinality(doms[v]) : v \in unassigned} :
                        \A v \in unassigned : n <= Cardinality(doms[v])
        list_of_variables == {v \in unassigned : Cardinality(doms[v]) = less_words}
        degree(v) == Cardinality(Neighbors(cw.variables, v))
    IN  IF Cardinality(list_of_variables) = 1
        THEN list_of_variables
        ELSE {v \in list_of_variables :
                \A u \in list_of_variables : degree(u) <= degree(v)}

\* ------------------------------------------------------------------------
\* solve()
\* ------------------------------------------------------------------------

Init ==
    /\ NoGames
    /\ crossword \in Crosswords
    /\ domains = InitDomains(crossword)
    /\ pc = "solve"
    /\ arcs_list = <<>>
    /\ ac3_ret = NotReturned
    /\ stack = <<>>
    /\ assignment = EmptyAssignment
    /\ ret = NoResult
    /\ call = NoCall

\* solve: self.enforce_node_consistency()
EnforceNodeConsistency ==
    /\ pc = "solve"
    /\ domains' = NodeConsistent(domains)
    /\ pc' = "ac3"
    /\ UNCHANGED <<games, crossword, arcs_list, ac3_ret, stack, assignment, ret, call>>

\* solve: self.ac3(), up to the while loop.
Ac3Begin ==
    /\ pc = "ac3"
    /\ arcs_list' \in InitialArcLists(crossword.variables)
    /\ pc' = "ac3_loop"
    /\ UNCHANGED <<games, crossword, domains, ac3_ret, stack, assignment, ret, call>>

\* A faulty variant of Ac3Step: the arcs of x are appended after every
\* revise that leaves domains[x] non-empty, whether it removed a word or not.
Ac3StepRequeuesAlways ==
    /\ pc = "ac3_loop"
    /\ arcs_list /= <<>>
    /\ LET x == arcs_list[1][1]
           y == arcs_list[1][2]
           rest == Tail(arcs_list)
           r == Revise(domains, x, y)
       IN  /\ domains' = r.domains
           /\ IF r.revised /\ r.domains[x] = {}
              THEN /\ ac3_ret' = <<FALSE>>
                   /\ arcs_list' = <<>>
                   /\ pc' = "backtrack"
              ELSE /\ \E appended \in Requeued(crossword.variables, rest, x, y) :
                         arcs_list' = rest \o appended
                   /\ UNCHANGED <<ac3_ret, pc>>
    /\ UNCHANGED <<games, crossword, stack, assignment, ret, call>>

\* One iteration of ac3's while loop.
Ac3Step ==
    /\ pc = "ac3_loop"
    /\ arcs_list /= <<>>
    /\ LET x == arcs_list[1][1]
           y == arcs_list[1][2]
           rest == Tail(arcs_list)
           r == Revise(domains, x, y)
       IN  /\ domains' = r.domains
           /\ IF r.revised
              THEN IF r.domains[x] = {}
                   THEN /\ ac3_ret' = <<FALSE>>
                        /\ arcs_list' = <<>>
                        /\ pc' = "backtrack"
                   ELSE /\ \E appended \in Requeued(crossword.variables, rest, x, y) :
                              arcs_list' = rest \o appended
                        /\ UNCHANGED <<ac3_ret, pc>>
              ELSE /\ arcs_list' = rest
                   /\ UNCHANGED <<ac3_ret, pc>>
    /\ UNCHANGED <<games, crossword, stack, assignment, ret, call>>

\* ac3: the worklist is empty, return True.
Ac3Return ==
    /\ pc = "ac3_loop"
    /\ arcs_list = <<>>
    /\ ac3_ret' = <<TRUE>>
    /\ pc' = "backtrack"
    /\ UNCHANGED <<games, crossword, domains, arcs_list, stack, assignment, ret, call>>

\* solve: self.backtrack(dict())
BacktrackBegin ==
    /\ pc = "backtrack"
    /\ assignment' = EmptyAssignment
    /\ pc' = "bt_call"
    /\ UNCHANGED <<games, crossword, domains, arcs_list, ac3_ret, stack, ret, call>>

\* backtrack(assignment): the assignment is complete and is returned.
BacktrackComplete ==
    /\ pc = "bt_call"
    /\ AssignmentComplete(crossword, assignment)
    /\ ret' = <<assignment>>
    /\ pc' = "bt_return"
    /\ UNCHANGED <<games, crossword, domains, arcs_list, ac3_ret, stack, assignment, call>>

\* backtrack(assignment): a variable is selected and its values ordered.
BacktrackSelect ==
    /\ pc = "bt_call"
    /\ ~ AssignmentComplete(crossword, assignment)
    /\ \E var \in SelectUnassignedVariable(crossword, domains, assignment) :
       \E values \in OrderDomainValues(crossword, domains, var, assignment) :
            stack' = Append(stack, [assignment |-> assignment, var |-> var,
                                    values |-> values])
    /\ pc' = "bt_loop"
    /\ UNCHANGED <<games, crossword, domains, arcs_list, ac3_ret, assignment, ret, call>>

\* A faulty variant of BacktrackTry: the value it tries is discarded from
\* the domain of the variable.
BacktrackTryPrunesDomain ==
    /\ pc = "bt_loop"
    /\ stack[Len(stack)].values /= <<>>
    /\ LET frame == stack[Len(stack)]
           value == Head(frame.values)
           new_assignment == (frame.var :> value) @@ frame.assignment
       IN  /\ stack' = [stack EXCEPT ![Len(stack)].values = Tail(@)]
           /\ domains' = [domains EXCEPT ![frame.var] = @ \ {value}]
           /\ IF Consistent(new_assignment)
              THEN /\ assignment' = new_assignment
                   /\ pc' = "bt_call"
              ELSE UNCHANGED <<assignment, pc>>
    /\ UNCHANGED <<games, crossword, arcs_list, ac3_ret, ret, call>>

\* A faulty variant of BacktrackTry: new_assignment is the caller's mapping
\* itself, not a copy of it, so the new entry is written into the mapping
\* the call received.
BacktrackTryNoCopy ==
    /\ pc = "bt_loop"
    /\ stack[Len(stack)].values /= <<>>
    /\ LET frame == stack[Len(stack)]
           value == Head(frame.values)
           new_assignment == (frame.var :> value) @@ frame.assignment
       IN  /\ stack' = [stack EXCEPT ![Len(stack)].values = Tail(@),
                                     ![Len(stack)].assignment = new_assignment]
           /\ IF Consistent(new_assignment)
              THEN /\ assignment' = new_assignment
                   /\ pc' = "bt_call"
              ELSE UNCHANGED <<assignment, pc>>
    /\ UNCHANGED <<games, crossword, domains, arcs_list, ac3_ret, ret, call>>

\* A faulty variant of BacktrackTry: the value is not written into
\* new_assignment, which stays a copy of the assignment the call received.
BacktrackTryForgetsValue ==
    /\ pc = "bt_loop"
    /\ stack[Len(stack)].values /= <<>>
    /\ LET frame == stack[Len(stack)]
           new_assignment == frame.assignment
       IN  /\ stack' = [stack EXCEPT ![Len(stack)].values = Tail(@)]
           /\ IF Consistent(new_assignment)
              THEN /\ assignment' = new_assignment
                   /\ pc' = "bt_call"
              ELSE UNCHANGED <<assignment, pc>>
    /\ UNCHANGED <<games, crossword, domains, arcs_list, ac3_ret, ret, call>>

\* backtrack's for loop: the next value, and the recursive call when the
\* new assignment is consistent.
BacktrackTry ==
    /\ pc = "bt_loop"
    /\ stack[Len(stack)].values /= <<>>
    /\ LET frame == stack[Len(stack)]
           value == Head(frame.values)
           new_assignment == (frame.var :> value) @@ frame.assignment
       IN  /\ stack' = [stack EXCEPT ![Len(stack)].values = Tail(@)]
           /\ IF Consistent(new_assignment)
              THEN /\ assignment' = new_assignment
                   /\ pc' = "bt_call"
              ELSE UNCHANGED <<assignment, pc>>
    /\ UNCHANGED <<games, crossword, domains, arcs_list, ac3_ret, ret, call>>

\* A faulty variant of BacktrackExhausted: when the loop is over, the
\* assignment the call received is returned.
BacktrackExhaustedReturnsAssignment ==
    /\ pc = "bt_loop"
    /\ stack[Len(stack)].values = <<>>
    /\ stack' = SubSeq(stack, 1, Len(stack) - 1)
    /\ ret' = <<stack[Len(stack)].assignment>>
    /\ pc' = "bt_return"
    /\ UNCHANGED <<games, crossword, domains, arcs_list, ac3_ret, assignment, call>>

\* A faulty variant of BacktrackExhausted: when the loop is over, the call
\* starts again from its first line with the assignment it received.
BacktrackExhaustedStartsAgain ==
    /\ pc = "bt_loop"
    /\ stack[Len(stack)].values = <<>>
    /\ stack' = SubSeq(stack, 1, Len(stack) - 1)
    /\ assignment' = stack[Len(stack)].assignment
    /\ pc' = "bt_call"
    /\ UNCHANGED <<games, crossword, domains, arcs_list, ac3_ret, ret, call>>

\* backtrack's for loop is over: return None.
BacktrackExhausted ==
    /\ pc = "bt_loop"
    /\ stack[Len(stack)].values = <<>>
    /\ stack' = SubSeq(stack, 1, Len(stack) - 1)
    /\ ret' = NoResult
    /\ pc' = "bt_return"
    /\ UNCHANGED <<games, crossword, domains, arcs_list, ac3_ret, assignment, call>>

\* A faulty variant of BacktrackResume: whatever the recursive call
\* returned is returned at once, None too.
BacktrackResumeReturnsNone ==
    /\ pc = "bt_return"
    /\ stack /= <<>>
    /\ stack' = SubSeq(stack, 1, Len(stack) - 1)
    /\ UNCHANGED <<games, crossword, domains, pc, arcs_list, ac3_ret, assignment, ret, call>>

\* A faulty variant of BacktrackResume: the loop goes on with the next
\* value whatever the recursive call returned.
BacktrackResumeKeepsTrying ==
    /\ pc = "bt_return"
    /\ stack /= <<>>
    /\ pc' = "bt_loop"
    /\ UNCHANGED <<games, crossword, domains, arcs_list, ac3_ret, stack, assignment, ret, call>>

\* A recursive call returned to backtrack's loop: a result is returned at
\* once, None goes on with the next value.
BacktrackResume ==
    /\ pc = "bt_return"
    /\ stack /= <<>>
    /\ IF ret /= NoResult
       THEN /\ stack' = SubSeq(stack, 1, Len(stack) - 1)
            /\ UNCHANGED pc
       ELSE /\ pc' = "bt_loop"
            /\ UNCHANGED stack
    /\ UNCHANGED <<games, crossword, domains, arcs_list, ac3_ret, assignment, ret, call>>

\* The outermost backtrack returned: solve() returns its value.
SolveReturn ==
    /\ pc = "bt_return"
    /\ stack = <<>>
    /\ pc' = "done"
    /\ UNCHANGED <<games, crossword, domains, arcs_list, ac3_ret, stack, assignment, ret, call>>

Next ==
    \/ EnforceNodeConsistency
    \/ Ac3Begin
    \/ Ac3Step
    \/ Ac3Return
    \/ BacktrackBegin
    \/ BacktrackComplete
    \/ BacktrackSelect
    \/ BacktrackTry
    \/ BacktrackExhausted
    \/ BacktrackResume
    \/ SolveReturn

Spec == Init /\ [][Next]_vars

\* ------------------------------------------------------------------------
\* What a solution of a puzzle is (spec section 3)
\* ------------------------------------------------------------------------

\* (a) all assigned words are pairwise distinct.
DistinctWords(a) == \A x, y \in DOMAIN a : x /= y => a[x] /= a[y]

\* (b) each assigned word has the length of its variable.
LengthsMatch(a) == \A v \in DOMAIN a : Len(a[v]) = v.length

\* (c) two assigned variables that overlap at (k, l) agree there.
OverlapsAgree(a) ==
    \A x, y \in DOMAIN a :
        (x /= y /\ Overlap(x, y) /= None) =>
            LET k == Overlap(x, y)[1]
                l == Overlap(x, y)[2]
            IN  /\ k < Len(a[x])
                /\ l < Len(a[y])
                /\ a[x][k + 1] = a[y][l + 1]

\* A complete assignment of the puzzle that satisfies (a), (b) and (c).
IsSolution(cw, a) ==
    /\ DOMAIN a = cw.variables
    /\ DistinctWords(a)
    /\ LengthsMatch(a)
    /\ OverlapsAgree(a)

\* The complete valid assignments over the vocabulary.
Solutions(cw) == {a \in [cw.variables -> cw.words] : IsSolution(cw, a)}

\* Some domain is empty.
SomeDomainEmpty == \E v \in DOMAIN domains : domains[v] = {}

\* ------------------------------------------------------------------------
\* Properties of solve()
\* ------------------------------------------------------------------------

\* C1: a result of solve() other than None assigns a word to every variable
\* of the crossword, the words are pairwise distinct, each has its
\* variable's length, and overlapping variables agree at their overlap.
C1_ResultIsSolution ==
    (pc = "done" /\ ret /= NoResult) => IsSolution(crossword, ret[1])

\* C1 witness: solve() returned an assignment of a puzzle in which two
\* variables overlap.
C1_Witness ==
    /\ pc = "done"
    /\ ret /= NoResult
    /\ \E x, y \in crossword.variables : x /= y /\ Overlap(x, y) /= None

\* C2: on a puzzle that has a solution, solve() returns a solution,
\* whichever tied variable the selector picks and whichever order the
\* orderer gives to words of equal score (every such choice is a behaviour).
C2_SolvableIsSolved ==
    (pc = "done" /\ Solutions(crossword) /= {}) =>
        (ret /= NoResult /\ ret[1] \in Solutions(crossword))

\* C2 witness: a solved puzzle whose first selection had tied variables and
\* whose first variable had more than one order of its words.
C2_Witness ==
    /\ pc = "done"
    /\ Solutions(crossword) /= {}
    /\ ret /= NoResult
    /\ Cardinality(SelectUnassignedVariable(crossword, domains, EmptyAssignment)) > 1
    /\ \E var \in SelectUnassignedVariable(crossword, domains, EmptyAssignment) :
          Cardinality(OrderDomainValues(crossword, domains, var, EmptyAssignment)) > 1

\* C3: on a puzzle without a solution, solve() returns None.
C3_UnsolvableIsNone ==
    (pc = "done" /\ Solutions(crossword) = {}) => ret = NoResult

\* C3 witness: solve() returned None for two overlapping variables whose
\* domains kept words of the right length.
C3_Witness ==
    /\ pc = "done"
    /\ Solutions(crossword) = {}
    /\ ret = NoResult
    /\ \E x, y \in crossword.variables :
          /\ x /= y
          /\ Overlap(x, y) /= None
          /\ \E wx, wy \in crossword.words :
                Len(wx) = x.length /\ Len(wy) = y.length /\ wx /= wy

\* C4 (as stated): ac3() returns False exactly when some domain is empty
\* at its return.
C4_FalseIffSomeDomainEmpty ==
    (pc = "backtrack") => ((ac3_ret = <<FALSE>>) <=> SomeDomainEmpty)

\* C5 (as stated): when ac3() returns True, revise finds nothing to remove
\* on any arc between neighbours, in either direction.
C5_TrueIsArcConsistent ==
    (pc = "backtrack" /\ ac3_ret = <<TRUE>>) =>
        \A x, y \in crossword.variables :
            (x /= y /\ Overlap(x, y) /= None) =>
                /\ ~ Revise(domains, x, y).revised
                /\ Revise(domains, x, y).domains = domains

\* ------------------------------------------------------------------------
\* Direct calls of revise, enforce_node_consistency and consistent
\* ------------------------------------------------------------------------

\* The domain stores in which every word has its variable's length.
NodeConsistentStores(cw) ==
    [cw.variables -> SUBSET cw.words] \cap
        {doms \in [cw.variables -> SUBSET cw.words] : NodeConsistent(doms) = doms}

\* The assignments of some of the variables to words of the vocabulary.
PartialAssignments(cw) ==
    UNION {[V -> cw.words] : V \in SUBSET cw.variables}

\* A solver on which no method has run yet, but for its domains.
Idle ==
    /\ pc = "api"
    /\ arcs_list = <<>>
    /\ ac3_ret = NotReturned
    /\ stack = <<>>
    /\ ret = NoResult
    /\ call = NoCall

\* revise(x, y) is called on any node-consistent domain store.
InitRevise ==
    /\ NoGames
    /\ crossword \in Crosswords
    /\ domains \in NodeConsistentStores(crossword)
    /\ assignment = EmptyAssignment
    /\ Idle

CallRevise ==
    /\ pc = "api"
    /\ \E x, y \in crossword.variables :
          /\ x /= y
          /\ domains' = Revise(domains, x, y).domains
          /\ call' = [op |-> "revise", x |-> x, y |-> y, before |-> domains,
                      ret |-> Revise(domains, x, y).revised]
    /\ pc' = "returned"
    /\ UNCHANGED <<games, crossword, arcs_list, ac3_ret, stack, assignment, ret>>

NextRevise == CallRevise

SpecRevise == InitRevise /\ [][NextRevise]_vars

\* enforce_node_consistency() is called, twice in a row, on any domain store.
InitNode ==
    /\ NoGames
    /\ crossword \in Crosswords
    /\ domains \in [crossword.variables -> SUBSET crossword.words]
    /\ assignment = EmptyAssignment
    /\ Idle

CallEnforceNodeConsistency ==
    /\ pc \in {"api", "returned"}
    /\ domains' = NodeConsistent(domains)
    /\ call' = [op |-> "enforce_node_consistency", before |-> domains,
                again |-> (pc = "returned")]
    /\ pc' = IF pc = "api" THEN "returned" ELSE "returned twice"
    /\ UNCHANGED <<games, crossword, arcs_list, ac3_ret, stack, assignment, ret>>

NextNode == CallEnforceNodeConsistency

SpecNode == InitNode /\ [][NextNode]_vars

\* consistent(assignment) is called on any assignment of vocabulary words.
InitConsistent ==
    /\ NoGames
    /\ crossword \in Crosswords
    /\ domains = NodeConsistent(InitDomains(crossword))
    /\ assignment \in PartialAssignments(crossword)
    /\ Idle

CallConsistent ==
    /\ pc = "api"
    /\ call' = [op |-> "consistent", arg |-> assignment, before |-> domains,
                ret |-> Consistent(assignment)]
    /\ pc' = "returned"
    /\ UNCHANGED <<games, crossword, domains, arcs_list, ac3_ret, stack, assignment, ret>>

NextConsistent == CallConsistent

SpecConsistent == InitConsistent /\ [][NextConsistent]_vars

\* ------------------------------------------------------------------------
\* Properties of revise, enforce_node_consistency and consistent
\* ------------------------------------------------------------------------

\* C6: after revise(x, y) on variables that overlap at (k, l), domains[x]
\* holds exactly the words it held before that have a word of domains[y]
\* with the same letter at the overlap: each remaining word has a support,
\* and no supported word was removed.
C6_ReviseKeepsSupported ==
    (call.op = "revise" /\ Overlap(call.x, call.y) /= None) =>
        LET k == Overlap(call.x, call.y)[1]
            l == Overlap(call.x, call.y)[2]
            supported(wx) == \E wy \in domains[call.y] : wx[k + 1] = wy[l + 1]
        IN  /\ domains[call.x] \subseteq call.before[call.x]
            /\ \A wx \in domains[call.x] : supported(wx)
            /\ \A wx \in call.before[call.x] \ domains[call.x] : ~ supported(wx)

\* C6 witness: a revise that removed one word of several and kept another.
C6_Witness ==
    /\ call.op = "revise"
    /\ Overlap(call.x, call.y) /= None
    /\ domains[call.x] /= {}
    /\ domains[call.x] /= call.before[call.x]

\* C7: revise(x, y) returns True exactly when it removed a word of
\* domains[x]; without an overlap it returns False and no domain changes.
C7_ReviseReturn ==
    (call.op = "revise") =>
        /\ call.ret <=> (domains[call.x] /= call.before[call.x])
        /\ call.ret <=> (\E w \in call.before[call.x] : w \notin domains[call.x])
        /\ Overlap(call.x, call.y) = None => (~ call.ret /\ domains = call.before)

\* C7 witness: a revise on overlapping variables returned True after
\* removing every word of domains[x], domains[y] holding words.
C7_Witness ==
    /\ call.op = "revise"
    /\ call.ret
    /\ call.before[call.x] /= {}
    /\ domains[call.x] = {}
    /\ domains[call.y] /= {}

\* C8: after enforce_node_consistency the domain of every variable v is
\* exactly the words of its previous domain whose length is v.length.
C8_NodeConsistencyExact ==
    (call.op = "enforce_node_consistency") =>
        \A v \in crossword.variables :
            /\ \A w \in domains[v] : w \in call.before[v] /\ Len(w) = v.length
            /\ \A w \in call.before[v] : Len(w) = v.length => w \in domains[v]

\* C8 witness: one call removed a word from one domain, kept a word in
\* another and emptied neither of a word of the right length.
C8_Witness ==
    /\ call.op = "enforce_node_consistency"
    /\ ~ call.again
    /\ \E v \in crossword.variables :
          domains[v] /= {} /\ domains[v] /= call.before[v]

\* C9: a second run of enforce_node_consistency leaves the domains the
\* first run left.
C9_NodeConsistencyIdempotent ==
    (call.op = "enforce_node_consistency" /\ call.again) =>
        domains = call.before

\* C9 witness: the second run returned, after a first run that had removed
\* more than one word from a domain.
C9_Witness ==
    /\ call.op = "enforce_node_consistency"
    /\ call.again
    /\ \E v \in crossword.variables :
          Cardinality(crossword.words \ domains[v]) > 1

\* C10: consistent(assignment) returns True exactly when the assigned words
\* are pairwise distinct, each has its variable's length and overlapping
\* assigned variables agree at their overlap; the assignment and the
\* domains are what they were.
C10_ConsistentIffValid ==
    (call.op = "consistent") =>
        /\ call.ret <=>
              (DistinctWords(assignment) /\ LengthsMatch(assignment)
                  /\ OverlapsAgree(assignment))
        /\ assignment = call.arg
        /\ domains = call.before

\* C10 witness: consistent returned False for two distinct words of the
\* right lengths that disagree at the overlap of their variables.
C10_Witness ==
    /\ call.op = "consistent"
    /\ ~ call.ret
    /\ Cardinality(DOMAIN assignment) = 2
    /\ DistinctWords(assignment)
    /\ LengthsMatch(assignment)

\* ------------------------------------------------------------------------
\* Direct calls of select_unassigned_variable and order_domain_values
\* ------------------------------------------------------------------------

\* The assignments that leave at least one variable unassigned.
IncompleteAssignments(cw) ==
    {a \in PartialAssignments(cw) : DOMAIN a /= cw.variables}

\* select_unassigned_variable(assignment) or order_domain_values(var,
\* assignment) is called, after enforce_node_consistency, on any assignment
\* that leaves a variable unassigned.
InitSearch ==
    /\ NoGames
    /\ crossword \in Crosswords
    /\ domains = NodeConsistent(InitDomains(crossword))
    /\ assignment \in IncompleteAssignments(crossword)
    /\ Idle

CallSelectUnassignedVariable ==
    /\ pc = "api"
    /\ \E var \in SelectUnassignedVariable(crossword, domains, assignment) :
          call' = [op |-> "select_unassigned_variable", arg |-> assignment,
                   before |-> domains, ret |-> var]
    /\ pc' = "returned"
    /\ UNCHANGED <<games, crossword, domains, arcs_list, ac3_ret, stack, assignment, ret>>

CallOrderDomainValues ==
    /\ pc = "api"
    /\ \E var \in crossword.variables \ DOMAIN assignment :
          \E list_of_values \in OrderDomainValues(crossword, domains, var, assignment) :
              call' = [op |-> "order_domain_values", var |-> var,
                       arg |-> assignment, before |-> domains,
                       ret |-> list_of_values]
    /\ pc' = "returned"
    /\ UNCHANGED <<games, crossword, domains, arcs_list, ac3_ret, stack, assignment, ret>>

NextSearch ==
    \/ CallSelectUnassignedVariable
    \/ CallOrderDomainValues

SpecSearch == InitSearch /\ [][NextSearch]_vars

\* ------------------------------------------------------------------------
\* Properties of select_unassigned_variable and order_domain_values
\* ------------------------------------------------------------------------

\* The number of variables that overlap v.
Degree(v) ==
    Cardinality({u \in crossword.variables : u /= v /\ Overlap(v, u) /= None})

\* C11: select_unassigned_variable(assignment) returns an unassigned
\* variable whose domain is no larger than that of any unassigned variable
\* and which, among the unassigned variables with a domain of that size,
\* has the most neighbours.
C11_SelectMrvThenDegree ==
    (call.op = "select_unassigned_variable") =>
        LET unassigned == crossword.variables \ DOMAIN call.arg
        IN  /\ call.ret \in unassigned
            /\ \A u \in unassigned :
                  Cardinality(domains[call.ret]) <= Cardinality(domains[u])
            /\ \A u \in unassigned :
                  Cardinality(domains[u]) = Cardinality(domains[call.ret])
                      => Degree(u) <= Degree(call.ret)

\* C11 witness: with one variable assigned, the selector returned the one
\* of two unassigned variables with equally many words that has more
\* neighbours.
C11_Witness ==
    /\ call.op = "select_unassigned_variable"
    /\ call.arg /= EmptyAssignment
    /\ domains[call.ret] /= {}
    /\ \E u \in crossword.variables \ DOMAIN call.arg :
          /\ u /= call.ret
          /\ Cardinality(domains[u]) = Cardinality(domains[call.ret])
          /\ Degree(u) < Degree(call.ret)

\* The elimination score of w for var: the pairs of an unassigned variable
\* u that overlaps var at (k, l) and a word of domains[u] whose letter at l
\* differs from w's letter at k.
Score(var, a, w) ==
    Cardinality({p \in (crossword.variables \ DOMAIN a) \X crossword.words :
        /\ p[1] /= var
        /\ Overlap(var, p[1]) /= None
        /\ p[2] \in domains[p[1]]
        /\ w[Overlap(var, p[1])[1] + 1] /= p[2][Overlap(var, p[1])[2] + 1]})

\* C12: order_domain_values(var, assignment) returns the words of
\* domains[var], each once, in non-decreasing order of elimination score;
\* assigned variables contribute nothing to the score.
C12_OrderByEliminationScore ==
    (call.op = "order_domain_values") =>
        /\ Len(call.ret) = Cardinality(domains[call.var])
        /\ Range(call.ret) = domains[call.var]
        /\ \A m, n \in 1..Len(call.ret) :
              m < n => Score(call.var, call.arg, call.ret[m])
                          <= Score(call.var, call.arg, call.ret[n])

\* C12 witness: two words of different scores were ordered for a variable
\* that has an assigned neighbour and an unassigned one, both with words.
C12_Witness ==
    /\ call.op = "order_domain_values"
    /\ Len(call.ret) = 2
    /\ Score(call.var, call.arg, call.ret[1]) < Score(call.var, call.arg, call.ret[2])
    /\ \E u \in DOMAIN call.arg :
          Overlap(call.var, u) /= None /\ domains[u] /= {}
    /\ \E u \in crossword.variables \ DOMAIN call.arg :
          u /= call.var /\ Overlap(call.var, u) /= None /\ domains[u] /= {}

\* ------------------------------------------------------------------------
\* Properties of solve() after propagation
\* ------------------------------------------------------------------------

\* C14: when ac3() returned False inside solve(), the backtrack({}) that
\* solve() runs afterwards returns None, and so does solve().
C14_Ac3FalseThenNone ==
    (pc = "done" /\ ac3_ret = <<FALSE>>) => ret = NoResult

\* C14 witness: solve() returned None after ac3() had returned False,
\* another variable still holding a word to try.
C14_Witness ==
    /\ pc = "done"
    /\ ac3_ret = <<FALSE>>
    /\ ret = NoResult
    /\ \E v \in crossword.variables : domains[v] /= {}

\* Every word of every domain has the length of its variable.
DomainsHaveVariableLength ==
    \A v \in crossword.variables : \A w \in domains[v] : Len(w) = v.length

\* C16 (as stated): in every state of the solver, from its construction
\* through propagation and search, every word of domains[v] has length
\* v.length.
C16_AlwaysVariableLength == DomainsHaveVariableLength

\* C16: in every state of solve() from the return of
\* enforce_node_consistency on, through propagation and search, every word
\* of domains[v] has length v.length.
C16_VariableLengthAfterNodeConsistency ==
    (pc /= "solve") => DomainsHaveVariableLength

\* C16 witness: solve() has returned, a variable holding a word of its
\* length while the vocabulary has a word of another length.
C16_Witness ==
    /\ pc = "done"
    /\ \E v \in crossword.variables :
          /\ domains[v] /= {}
          /\ \E w \in crossword.words : Len(w) /= v.length

\* C17: a step of solve() changes the domains only inside
\* enforce_node_consistency and ac3 (through revise), before backtrack({})
\* is entered; from then until it returns, no step of backtrack, the
\* selector, the orderer, assignment_complete or consistent changes them.
C17_DomainsReadOnlyDuringSearch ==
    [][/\ (domains' /= domains) => pc \in {"solve", "ac3_loop"}
       /\ pc \in {"backtrack", "bt_call", "bt_loop", "bt_return", "done"}
             => domains' = domains]_vars

\* C17 witness: the search returned an assignment after trying values, and
\* a domain still holds a word the assignment did not take.
C17_Witness ==
    /\ pc = "done"
    /\ ret /= NoResult
    /\ \E v \in crossword.variables : \E w \in domains[v] : ret[1][v] /= w

\* a extended by one value for var, and nothing else.
ExtendsByOne(b, a, var) ==
    /\ var \notin DOMAIN a
    /\ DOMAIN b = DOMAIN a \cup {var}
    /\ \A v \in DOMAIN a : b[v] = a[v]

\* C18: no step changes the assignment a call of backtrack received, for
\* as long as the call lasts; the assignment of every recursive call is
\* its caller's extended by a value for the caller's variable and by
\* nothing else, so nothing of a failed branch is in a sibling's.
C18_AssignmentsNeverMutated ==
    [][/\ \A i \in 1..Len(stack) :
             i <= Len(stack') => stack'[i].assignment = stack[i].assignment
       /\ \A i \in 1..Len(stack') :
             IF i < Len(stack')
             THEN ExtendsByOne(stack'[i + 1].assignment, stack'[i].assignment,
                               stack'[i].var)
             ELSE pc' = "bt_call"
                     => ExtendsByOne(assignment', stack'[i].assignment, stack'[i].var)]_vars

\* C18 witness: a recursive call returned None to a caller that holds an
\* assignment of its own and has another value to try.
C18_Witness ==
    /\ pc = "bt_return"
    /\ ret = NoResult
    /\ Len(stack) >= 2
    /\ stack[Len(stack)].values /= <<>>

\* ------------------------------------------------------------------------
\* Direct calls of ac3, with and without a list of arcs
\* ------------------------------------------------------------------------

\* The longest list of arcs given to ac3.
MaxArcs == 2

\* The lists of arcs that ac3(arcs) is given: pairs of distinct variables,
\* overlapping or not, repeated or not.
GivenArcLists(variables) ==
    UNION {[1..n -> {arc \in variables \X variables : arc[1] /= arc[2]}] :
              n \in 0..MaxArcs}

\* ac3(arcs) or ac3() is called after enforce_node_consistency; the state
\* is the one at the head of the while loop, arcs_list being arcs.copy() or
\* the list built from the neighbours.
InitAc3 ==
    /\ NoGames
    /\ crossword \in Crosswords
    /\ domains = NodeConsistent(InitDomains(crossword))
    /\ arcs_list \in GivenArcLists(crossword.variables)
                        \cup InitialArcLists(crossword.variables)
    /\ pc = "ac3_loop"
    /\ ac3_ret = NotReturned
    /\ stack = <<>>
    /\ assignment = EmptyAssignment
    /\ ret = NoResult
    /\ call = [op |-> "ac3", arcs |-> arcs_list, before |-> domains]

NextAc3 ==
    \/ Ac3Step
    \/ Ac3Return

\* The interpreter goes on running the loop: an iteration that can be taken
\* is taken, and so is the return.
SpecAc3 == InitAc3 /\ [][NextAc3]_vars /\ WF_vars(Ac3Step) /\ WF_vars(Ac3Return)

\* ac3 has returned: True with an empty worklist, or False on an empty domain.
Ac3Returned ==
    /\ pc = "backtrack"
    /\ \/ ac3_ret = <<TRUE>> /\ arcs_list = <<>>
       \/ ac3_ret = <<FALSE>> /\ SomeDomainEmpty

\* An iteration of ac3 that does not shorten the worklist has removed a
\* word from a domain: arcs are appended only after a revise that shrank
\* domains[x].
Ac3RequeuesOnlyAfterShrink ==
    [][(pc = "ac3_loop" /\ pc' = "ac3_loop" /\ Len(arcs_list') >= Len(arcs_list))
          => \E x \in crossword.variables :
                /\ domains'[x] \subseteq domains[x]
                /\ domains'[x] /= domains[x]]_vars

\* C13: whatever list of arcs it starts from, ac3 returns, with an empty
\* worklist or on an empty domain.
C13_Ac3Terminates == <>Ac3Returned

\* C13 witness: ac3 returned True from a list of one arc, after revising a
\* variable that has two neighbours, whose other arc it had to append.
C13_Witness ==
    /\ Ac3Returned
    /\ call.op = "ac3"
    /\ Len(call.arcs) = 1
    /\ ac3_ret = <<TRUE>>
    /\ LET x == call.arcs[1][1]
       IN  /\ domains[x] /= call.before[x]
           /\ Cardinality(Neighbors(crossword.variables, x)) = 2

\* ------------------------------------------------------------------------
\* The scenario of two variables of length 2 that overlap at (0, 0), with
\* the vocabulary {"ax", "by"}
\* ------------------------------------------------------------------------

\* The vocabulary of the scenario.
ScenarioWords == {<<"a", "x">>, <<"b", "y">>}

\* The words the vocabularies around the scenario are made of.
ScenarioUniverse == ScenarioWords \cup {<<"a", "y">>, <<"b", "x">>}

\* The puzzles around the scenario: the grids whose variables are two of
\* length 2 with the overlap (0, 0), with a vocabulary of one or more
\* words of the universe; the scenario's own vocabulary is one of them.
ScenarioCrosswords ==
    {[structure |-> structure, words |-> words,
      variables |-> VariablesOf(structure)] :
        structure \in {st \in Structures :
            /\ Cardinality(VariablesOf(st)) = 2
            /\ \A v \in VariablesOf(st) : v.length = 2
            /\ \E x, y \in VariablesOf(st) :
                  /\ x /= y
                  /\ Overlap(x, y) /= None
                  /\ Overlap(x, y)[1] = 0
                  /\ Overlap(x, y)[2] = 0},
        words \in SUBSET ScenarioUniverse \ {{}}}

\* solve() on a puzzle around the scenario.
InitScenario ==
    /\ NoGames
    /\ crossword \in ScenarioCrosswords
    /\ domains = InitDomains(crossword)
    /\ pc = "solve"
    /\ arcs_list = <<>>
    /\ ac3_ret = NotReturned
    /\ stack = <<>>
    /\ assignment = EmptyAssignment
    /\ ret = NoResult
    /\ call = NoCall

SpecScenario == InitScenario /\ [][Next]_vars

\* ac3() has returned inside solve() on the scenario's puzzle.
ScenarioPropagated ==
    /\ crossword.words = ScenarioWords
    /\ pc \in {"backtrack", "bt_call", "bt_loop", "bt_return", "done"}

\* C15 (as stated): on the scenario's puzzle, ac3() run after
\* enforce_node_consistency leaves at least one domain empty and returns
\* False.
C15_Ac3EmptiesADomain ==
    ScenarioPropagated => (SomeDomainEmpty /\ ac3_ret = <<FALSE>>)

\* C15: on the scenario's puzzle, ac3() run after enforce_node_consistency
\* removes no word, each word of a variable having itself as a support in
\* the domain of the other: both domains stay {"ax", "by"}, ac3 returns
\* True, and solve() returns None.
C15_Ac3RemovesNothing ==
    ScenarioPropagated =>
        /\ ac3_ret = <<TRUE>>
        /\ \A v \in crossword.variables : domains[v] = ScenarioWords
        /\ pc = "done" => ret = NoResult

\* C15 witness: solve() has returned on the scenario's puzzle, after ac3()
\* and the search.
C15_Witness ==
    /\ ScenarioPropagated
    /\ pc = "done"
    /\ ac3_ret /= NotReturned

\* ------------------------------------------------------------------------
\* tictactoe.py
\* ------------------------------------------------------------------------

\* The most empty cells of a board on which minimax is called.
MaxEmpty == 9

\* The crossword solver is not in use.
NoCrossword ==
    /\ crossword = None
    /\ domains = <<>>
    /\ arcs_list = <<>>
    /\ ac3_ret = NotReturned
    /\ stack = <<>>
    /\ assignment = EmptyAssignment
    /\ ret = NoResult

\* The largest and the smallest number of a non-empty set.
SetMax(S) == CHOOSE m \in S : \A n \in S : n <= m
SetMin(S) == CHOOSE m \in S : \A n \in S : m <= n

\* The cells (i, j) of the board.
Cells == (0..2) \X (0..2)

\* player(board): X when as many X as O are on the board.
player(b) ==
    IF Cardinality({c \in Cells : b[c] = X}) = Cardinality({c \in Cells : b[c] = O})
    THEN X
    ELSE O

\* actions(board): the empty cells.
actions(b) == {c \in Cells : b[c] = EMPTY}

\* result(board, action): a copy of the board with the move made on it.
result(b, action) == [b EXCEPT ![action] = player(b)]

\* The lines winner() looks at, in its order: the rows, the columns, one
\* diagonal, the other diagonal.
Lines ==
    << <<<<0, 0>>, <<0, 1>>, <<0, 2>>>>, <<<<1, 0>>, <<1, 1>>, <<1, 2>>>>,
       <<<<2, 0>>, <<2, 1>>, <<2, 2>>>>, <<<<0, 0>>, <<1, 0>>, <<2, 0>>>>,
       <<<<0, 1>>, <<1, 1>>, <<2, 1>>>>, <<<<0, 2>>, <<1, 2>>, <<2, 2>>>>,
       <<<<0, 0>>, <<1, 1>>, <<2, 2>>>>, <<<<2, 0>>, <<1, 1>>, <<0, 2>>>> >>

\* winner(board): the owner of the first line held by one player, or None.
winner(b) ==
    LET won == {n \in 1..Len(Lines) :
                   /\ b[Lines[n][1]] /= EMPTY
                   /\ b[Lines[n][1]] = b[Lines[n][2]]
                   /\ b[Lines[n][1]] = b[Lines[n][3]]}
    IN  IF won = {} THEN None ELSE b[Lines[SetMin(won)][1]]

\* terminal(board)
terminal(b) ==
    IF winner(b) = None
    THEN \A c \in Cells : b[c] /= EMPTY
    ELSE TRUE

\* A faulty variant of utility: a board that O has won is worth 0.
utilityIgnoresO(b) ==
    IF winner(b) = X THEN 1 ELSE 0

\* utility(board)
utility(b) ==
    IF winner(b) = None
    THEN 0
    ELSE IF winner(b) = X THEN 1 ELSE -1

\* maxValue(board) and minValue(board).  On a board that is not terminal
\* some cell is empty, so v leaves -inf or inf at the first action.
RECURSIVE maxValue(_), minValue(_)
maxValue(b) ==
    IF terminal(b)
    THEN utility(b)
    ELSE SetMax({minValue(result(b, action)) : action \in actions(b)})

minValue(b) ==
    IF terminal(b)
    THEN utility(b)
    ELSE SetMin({maxValue(result(b, action)) : action \in actions(b)})

\* minimax(board): the moves it may return.  bestMove is the first action,
\* in the iteration order of the set of actions, whose value is not
\* improved upon: any action of the best value; None without an action.
minimax(b) ==
    IF actions(b) = {}
    THEN {None}
    ELSE IF player(b) = X
    THEN LET best == SetMax({minValue(result(b, action)) : action \in actions(b)})
         IN  {action \in actions(b) : minValue(result(b, action)) = best}
    ELSE LET best == SetMin({maxValue(result(b, action)) : action \in actions(b)})
         IN  {action \in actions(b) : maxValue(result(b, action)) = best}

\* A game from initial_state(): the players move in turn until the board is
\* terminal, and minimax may be called on any board that is not.
InitTicTacToe ==
    /\ NoCrossword
    /\ board = initial_state
    /\ game = {}
    /\ ai = NewMinesweeperAI
    /\ pc = "play"
    /\ call = NoCall

\* A player makes a legal move.
Play ==
    /\ pc = "play"
    /\ ~ terminal(board)
    /\ \E action \in actions(board) : board' = result(board, action)
    /\ UNCHANGED <<crossword, domains, pc, arcs_list, ac3_ret, stack, assignment,
                   ret, call, game, ai>>

CallMinimax ==
    /\ pc = "play"
    /\ ~ terminal(board)
    /\ Cardinality(actions(board)) <= MaxEmpty
    /\ \E move \in minimax(board) :
          call' = [op |-> "minimax", ret |-> move]
    /\ pc' = "returned"
    /\ UNCHANGED <<crossword, domains, arcs_list, ac3_ret, stack, assignment,
                   ret, board, game, ai>>

NextTicTacToe ==
    \/ Play
    \/ CallMinimax

SpecTicTacToe == InitTicTacToe /\ [][NextTicTacToe]_vars

\* ------------------------------------------------------------------------
\* Properties of minimax
\* ------------------------------------------------------------------------

\* Player p holds a row, a column or a diagonal of b.
HoldsLine(b, p) ==
    \/ \E i \in 0..2 : \A j \in 0..2 : b[<<i, j>>] = p
    \/ \E j \in 0..2 : \A i \in 0..2 : b[<<i, j>>] = p
    \/ \A i \in 0..2 : b[<<i, i>>] = p
    \/ \A i \in 0..2 : b[<<i, 2 - i>>] = p

\* b with mark p in cell c.
Mark(b, c, p) == [b EXCEPT ![c] = p]

\* The game value of b when p is to move: 1 when X has won, -1 when O has
\* won, 0 when the board is full, else the best for p of the values of the
\* boards p can move to.
RECURSIVE GameValue(_, _)
GameValue(b, p) ==
    IF HoldsLine(b, X) THEN 1
    ELSE IF HoldsLine(b, O) THEN -1
    ELSE IF \A c \in Cells : b[c] /= EMPTY THEN 0
    ELSE IF p = X
    THEN SetMax({GameValue(Mark(b, c, X), O) : c \in {d \in Cells : b[d] = EMPTY}})
    ELSE SetMin({GameValue(Mark(b, c, O), X) : c \in {d \in Cells : b[d] = EMPTY}})

\* The player to move on a board on which X began and the players took turns.
ToMove(b) ==
    IF Cardinality({c \in Cells : b[c] /= EMPTY}) % 2 = 0 THEN X ELSE O

\* The player who is not p.
Opponent(p) == IF p = X THEN O ELSE X

\* C19: on a board that is not terminal, reached from initial_state() by
\* legal moves in turn, minimax returns an empty cell, and the board after
\* that move has the best game value the player to move can reach: the
\* largest for X, the smallest for O.
C19_MinimaxIsOptimal ==
    (call.op = "minimax") =>
        LET p == ToMove(board)
            after(c) == GameValue(Mark(board, c, p), Opponent(p))
        IN  /\ call.ret \in Cells
            /\ board[call.ret] = EMPTY
            /\ \A c \in Cells :
                  board[c] = EMPTY =>
                      IF p = X
                      THEN after(c) <= after(call.ret)
                      ELSE after(call.ret) <= after(c)

\* C19 witness: minimax returned O's move on a board where another empty
\* cell leads to a board of a worse value for O.
C19_Witness ==
    /\ call.op = "minimax"
    /\ ToMove(board) = O
    /\ \E c \in Cells :
          /\ board[c] = EMPTY
          /\ GameValue(Mark(board, c, O), X) > GameValue(Mark(board, call.ret, O), X)

\* ------------------------------------------------------------------------
\* minesweeper.py: Sentence
\* ------------------------------------------------------------------------

\* The board of the game: MinesweeperAI(height, width).
MsHeight == 3
MsWidth == 3

\* The most mines laid on the board.
MaxMines == 2

MsCells == (0..(MsHeight - 1)) \X (0..(MsWidth - 1))

\* Sentence(cells, count)
Sentence(cells, count) == [cells |-> cells, count |-> count]

\* Sentence.known_safes(): the sentence's own set of cells, or None.
known_safes(sentence) ==
    IF sentence.count = 0 THEN <<sentence.cells>> ELSE None

\* Sentence.known_mines(): the sentence's own set of cells, or None.
known_mines(sentence) ==
    IF sentence.count = Cardinality(sentence.cells) THEN <<sentence.cells>> ELSE None

\* A faulty variant of Sentence_mark_mine: the cell is removed and the
\* count is left as it was.
Sentence_mark_mine_keeps_count(sentence, cell) ==
    IF cell \in sentence.cells
    THEN Sentence(sentence.cells \ {cell}, sentence.count)
    ELSE sentence

\* Sentence.mark_mine(cell)
Sentence_mark_mine(sentence, cell) ==
    IF cell \in sentence.cells
    THEN Sentence(sentence.cells \ {cell}, sentence.count - 1)
    ELSE sentence

\* Sentence.mark_safe(cell)
Sentence_mark_safe(sentence, cell) ==
    IF cell \in sentence.cells
    THEN Sentence(sentence.cells \ {cell}, sentence.count)
    ELSE sentence

\* ------------------------------------------------------------------------
\* minesweeper.py: Minesweeper and MinesweeperAI
\* ------------------------------------------------------------------------

\* The cells within one row and column of cell, the cell itself excluded,
\* on the board or off it.
Around(cell) ==
    (((cell[1] - 1)..(cell[1] + 1)) \X ((cell[2] - 1)..(cell[2] + 1))) \ {cell}

\* Minesweeper.nearby_mines(cell)
nearby_mines(mines, cell) == Cardinality(Around(cell) \cap MsCells \cap mines)

\* MinesweeperAI.mark_mine(cell)
mark_mine(a, cell) ==
    [a EXCEPT !.mines = @ \cup {cell},
              !.knowledge = [n \in 1..Len(@) |-> Sentence_mark_mine(@[n], cell)]]

\* MinesweeperAI.mark_safe(cell)
mark_safe(a, cell) ==
    [a EXCEPT !.safes = @ \cup {cell},
              !.knowledge = [n \in 1..Len(@) |-> Sentence_mark_safe(@[n], cell)]]

\* mark_safe, or mark_mine, called for every cell of a set, in any order.
RECURSIVE mark_safe_each(_, _), mark_mine_each(_, _)
mark_safe_each(a, cells) ==
    IF cells = {}
    THEN a
    ELSE LET cell == CHOOSE cell \in cells : TRUE
         IN  mark_safe_each(mark_safe(a, cell), cells \ {cell})

mark_mine_each(a, cells) ==
    IF cells = {}
    THEN a
    ELSE LET cell == CHOOSE cell \in cells : TRUE
         IN  mark_mine_each(mark_mine(a, cell), cells \ {cell})

\* A sentence that has cells.
HasCells(sentence) == sentence.cells /= {}

\* remove_no_cells(): each sentence without cells is removed, by
\* list.remove, which takes out the first sentence equal to it.
remove_no_cells(knowledge) == SelectSeq(knowledge, HasCells)

\* list.remove(x): the list without its first element equal to x.
ListRemove(list, x) ==
    LET n == CHOOSE n \in 1..Len(list) :
                 list[n] = x /\ \A m \in 1..(n - 1) : list[m] /= x
    IN  SubSeq(list, 1, n - 1) \o SubSeq(list, n + 1, Len(list))

\* remove_equal_sentences' list_to_remove: the list is popped from its end,
\* and every sentence left in it that equals the popped one is appended.
RECURSIVE ListToRemove(_)
ListToRemove(list_to_verify) ==
    IF list_to_verify = <<>>
    THEN <<>>
    ELSE LET sentence_to_verify == list_to_verify[Len(list_to_verify)]
             rest == SubSeq(list_to_verify, 1, Len(list_to_verify) - 1)
             IsEqual(sentence_to_check) == sentence_to_check = sentence_to_verify
         IN  SelectSeq(rest, IsEqual) \o ListToRemove(rest)

\* remove_equal_sentences' removals: list.remove raises ValueError when
\* no sentence equal to the one to remove is left.
RECURSIVE RemoveEach(_, _)
RemoveEach(knowledge, list_to_remove) ==
    IF list_to_remove = <<>>
    THEN [knowledge |-> knowledge, raised |-> FALSE]
    ELSE IF Head(list_to_remove) \notin Range(knowledge)
    THEN [knowledge |-> knowledge, raised |-> TRUE]
    ELSE RemoveEach(ListRemove(knowledge, Head(list_to_remove)), Tail(list_to_remove))

\* remove_equal_sentences(): the knowledge it leaves, and whether it raised.
remove_equal_sentences(knowledge) ==
    RemoveEach(knowledge, ListToRemove(knowledge))

\* add_knowledge, step 3: the sentence about the neighbours of the cell.
\* Known mines lower the count, known safes are left out; with a count of
\* 0 every cell left is marked safe, otherwise the sentence is appended
\* unless an equal one is known.
AddNewSentence(a, cell, count) ==
    LET remaining == count - Cardinality(Around(cell) \cap a.mines)
        new_set == (Around(cell) \cap MsCells) \ (a.mines \cup a.safes)
        new_sentence == Sentence(new_set, remaining)
    IN  IF remaining = 0
        THEN mark_safe_each(a, new_set)
        ELSE IF new_sentence \in Range(a.knowledge)
        THEN a
        ELSE [a EXCEPT !.knowledge = Append(@, new_sentence)]

\* add_knowledge, step 4, from the n-th sentence on.  known_safes and
\* known_mines return the sentence's own set, which the loop empties by
\* pop: the sentence ends without cells, and with the count it had, since
\* its own mark_mine no longer finds the popped cell.
RECURSIVE MarkAdditional(_, _)
MarkAdditional(a, n) ==
    IF n > Len(a.knowledge)
    THEN a
    ELSE LET inquiry_safe == a.knowledge[n]
             a1 == IF known_safes(inquiry_safe) /= None
                   THEN mark_safe_each(a, inquiry_safe.cells)
                   ELSE a
             inquiry_mine == a1.knowledge[n]
             a2 == IF known_mines(inquiry_mine) /= None
                   THEN [mark_mine_each(a1, inquiry_mine.cells)
                            EXCEPT !.knowledge[n] = Sentence({}, inquiry_mine.count)]
                   ELSE a1
         IN  MarkAdditional(a2, n + 1)

\* add_knowledge, step 5: sentence_to_write, the sentences inferred from
\* every x and every y of the knowledge that differ, y's cells being a
\* subset of x's, in the order of the two loops.
Inferred(knowledge) ==
    LET size == Len(knowledge)
        pairs == [p \in 1..(size * size) |->
                     <<((p - 1) \div size) + 1, ((p - 1) % size) + 1>>]
        Infers(pair) ==
            /\ knowledge[pair[1]] /= knowledge[pair[2]]
            /\ knowledge[pair[2]].cells \subseteq knowledge[pair[1]].cells
        inferring == SelectSeq(pairs, Infers)
    IN  [q \in 1..Len(inferring) |->
            Sentence(knowledge[inferring[q][1]].cells \ knowledge[inferring[q][2]].cells,
                     knowledge[inferring[q][1]].count - knowledge[inferring[q][2]].count)]

\* add_knowledge, step 5: each inferred sentence marks its cells safe when
\* its count is 0, and is appended otherwise unless an equal one is known.
RECURSIVE WriteSentences(_, _)
WriteSentences(a, sentence_to_write) ==
    IF sentence_to_write = <<>>
    THEN a
    ELSE LET z == Head(sentence_to_write)
             a1 == IF z.count = 0
                   THEN mark_safe_each(a, z.cells)
                   ELSE IF z \in Range(a.knowledge)
                   THEN a
                   ELSE [a EXCEPT !.knowledge = Append(@, z)]
         IN  WriteSentences(a1, Tail(sentence_to_write))

\* add_knowledge(cell, count): the MinesweeperAI it leaves, and whether a
\* ValueError left it before its end.
add_knowledge(a, cell, count) ==
    LET a1 == mark_safe([a EXCEPT !.moves_made = @ \cup {cell}], cell)
        a2 == AddNewSentence(a1, cell, count)
        a3 == MarkAdditional(a2, 1)
        r1 == remove_equal_sentences(remove_no_cells(a3.knowledge))
        a4 == [a3 EXCEPT !.knowledge = r1.knowledge]
        a5 == WriteSentences(a4, Inferred(a4.knowledge))
        r2 == remove_equal_sentences(remove_no_cells(a5.knowledge))
    IN  IF r1.raised
        THEN [ai |-> a4, raised |-> TRUE]
        ELSE [ai |-> [a5 EXCEPT !.knowledge = r2.knowledge], raised |-> r2.raised]

\* A faulty variant of make_safe_move: the cell is popped from self.safes.
make_safe_move_pops_safes(a) ==
    LET safe_moves == a.safes \ a.moves_made
    IN  IF safe_moves /= {}
        THEN {[ret |-> cell, ai |-> [a EXCEPT !.safes = @ \ {cell}]] : cell \in safe_moves}
        ELSE {[ret |-> None, ai |-> a]}

\* make_safe_move(): what it may return, set.pop() taking any cell of the
\* set safes - moves_made, which is a set of its own; and the
\* MinesweeperAI it leaves.
make_safe_move(a) ==
    LET safe_moves == a.safes \ a.moves_made
    IN  IF safe_moves /= {}
        THEN {[ret |-> cell, ai |-> a] : cell \in safe_moves}
        ELSE {[ret |-> None, ai |-> a]}

\* A game of minesweeper: mines are laid, and the runner tells the AI the
\* number of mines around each cell that is revealed.
InitMinesweeper ==
    /\ NoCrossword
    /\ board = initial_state
    /\ game \in {mines \in SUBSET MsCells : Cardinality(mines) <= MaxMines}
    /\ ai = NewMinesweeperAI
    /\ pc = "play"
    /\ call = NoCall

\* A cell without a mine that was not revealed yet is revealed.
AddKnowledge ==
    /\ pc = "play"
    /\ \E cell \in MsCells \ (game \cup ai.moves_made) :
          LET r == add_knowledge(ai, cell, nearby_mines(game, cell))
          IN  /\ ai' = r.ai
              /\ pc' = IF r.raised THEN "raised" ELSE "play"
    /\ UNCHANGED <<crossword, domains, arcs_list, ac3_ret, stack, assignment,
                   ret, call, board, game>>

CallMakeSafeMove ==
    /\ pc \in {"play", "raised"}
    /\ \E r \in make_safe_move(ai) :
          /\ call' = [op |-> "make_safe_move", before |-> ai, ret |-> r.ret]
          /\ ai' = r.ai
    /\ pc' = "returned"
    /\ UNCHANGED <<crossword, domains, arcs_list, ac3_ret, stack, assignment,
                   ret, board, game>>

NextMinesweeper ==
    \/ AddKnowledge
    \/ CallMakeSafeMove

SpecMinesweeper == InitMinesweeper /\ [][NextMinesweeper]_vars

\* ------------------------------------------------------------------------
\* Properties of make_safe_move
\* ------------------------------------------------------------------------

\* C20: after any sequence of add_knowledge calls, make_safe_move()
\* returns a cell that is in safes and not in moves_made when there is
\* one and None when there is none, and mines, safes, moves_made and
\* knowledge are what they were before the call.
C20_MakeSafeMove ==
    (call.op = "make_safe_move") =>
        /\ ai = call.before
        /\ IF \E cell \in call.before.safes : cell \notin call.before.moves_made
           THEN call.ret \in call.before.safes /\ call.ret \notin call.before.moves_made
           ELSE call.ret = None

\* C20 witness: make_safe_move returned a safe cell that was not revealed,
\* the AI knowing a mine, a revealed cell and a sentence.
C20_Witness ==
    /\ call.op = "make_safe_move"
    /\ call.ret /= None
    /\ ai.mines /= {}
    /\ ai.moves_made /= {}
    /\ ai.knowledge /= <<>>

\* ------------------------------------------------------------------------
\* Direct calls of remove_equal_sentences
\* ------------------------------------------------------------------------

\* The longest knowledge list remove_equal_sentences is called on.
MaxKnowledge == 4

\* The sentences add_knowledge builds for the first cell revealed: the
\* neighbours of the cell, with a count of one or more mines.
FirstSentences ==
    {Sentence(Around(cell) \cap MsCells, count) :
        cell \in MsCells, count \in 1..MaxMines}

\* The knowledge lists of these sentences, a sentence held once or more.
KnowledgeLists == UNION {[1..n -> FirstSentences] : n \in 0..MaxKnowledge}

\* A MinesweeperAI that holds any of the knowledge lists.
InitRemoveEqual ==
    /\ NoCrossword
    /\ board = initial_state
    /\ game = {}
    /\ ai \in {[NewMinesweeperAI EXCEPT !.knowledge = knowledge] :
                  knowledge \in KnowledgeLists}
    /\ pc = "api"
    /\ call = NoCall

\* remove_equal_sentences() is called; a ValueError of list.remove leaves
\* it with the removals made until then.
CallRemoveEqualSentences ==
    /\ pc = "api"
    /\ LET r == remove_equal_sentences(ai.knowledge)
       IN  /\ ai' = [ai EXCEPT !.knowledge = r.knowledge]
           /\ call' = [op |-> "remove_equal_sentences", before |-> ai.knowledge,
                       raised |-> r.raised]
           /\ pc' = IF r.raised THEN "raised" ELSE "returned"
    /\ UNCHANGED <<crossword, domains, arcs_list, ac3_ret, stack, assignment,
                   ret, board, game>>

NextRemoveEqual == CallRemoveEqualSentences

SpecRemoveEqual == InitRemoveEqual /\ [][NextRemoveEqual]_vars

\* The number of places of a list that hold a sentence equal to s.
Copies(list, s) == Cardinality({n \in 1..Len(list) : list[n] = s})

\* C21 (as stated): after remove_equal_sentences() on any knowledge list,
\* no two sentences of the knowledge are equal and every sentence that was
\* in the list before the call is in it exactly once.
C21_RemovesDuplicates ==
    (call.op = "remove_equal_sentences") =>
        /\ ~ call.raised
        /\ \A m, n \in 1..Len(ai.knowledge) :
              m /= n => ai.knowledge[m] /= ai.knowledge[n]
        /\ \A s \in Range(call.before) : Copies(ai.knowledge, s) = 1

\* With at most two copies of each sentence the call does what C21 says.
RemovesDuplicatesOfPairs ==
    (/\ call.op = "remove_equal_sentences"
     /\ \A s \in Range(call.before) : Copies(call.before, s) <= 2) =>
        /\ ~ call.raised
        /\ \A s \in Range(call.before) : Copies(ai.knowledge, s) = 1
        /\ Range(ai.knowledge) = Range(call.before)

\* Three copies of a sentence are all removed, and four or more end in a
\* ValueError.
LosesTriples ==
    (call.op = "remove_equal_sentences") =>
        \A s \in Range(call.before) :
            /\ Copies(call.before, s) = 3 => Copies(ai.knowledge, s) = 0
            /\ Copies(call.before, s) >= 4 => call.raised

\* A state a game on the board reaches: add_knowledge ended in a ValueError
\* of remove_equal_sentences.
AddKnowledgeRaised == pc = "raised"

\* ------------------------------------------------------------------------
\* Properties of ac3's worklist
\* ------------------------------------------------------------------------

\* An iteration of ac3's loop popped the arc (x, y), and revise(x, y)
\* removed words of domains[x] without emptying it.
RevisedWithoutEmptying(x, y) ==
    /\ pc = "ac3_loop"
    /\ arcs_list /= <<>>
    /\ arcs_list[1] = <<x, y>>
    /\ domains'[x] /= domains[x]
    /\ domains'[x] /= {}

\* C22 (as stated): after an arc (x, y) is popped and revise(x, y) removed
\* words without emptying domains[x], every arc (z, x) with z a neighbour
\* of x other than y is in the worklist before the next arc is popped.
C22_RequeuesArcsIntoX ==
    [][\A x, y \in crossword.variables :
          RevisedWithoutEmptying(x, y) =>
              \A z \in Neighbors(crossword.variables, x) \ {y} :
                  <<z, x>> \in Range(arcs_list')]_vars

\* What the loop does put in the worklist: for every neighbour z of x other
\* than y, the arc (x, z) or the arc (z, x), one of which may have been
\* queued before.
RequeuesOneDirection ==
    [][\A x, y \in crossword.variables :
          RevisedWithoutEmptying(x, y) =>
              \A z \in Neighbors(crossword.variables, x) \ {y} :
                  <<x, z>> \in Range(arcs_list') \/ <<z, x>> \in Range(arcs_list')]_vars

\* The arcs the loop appends all lead out of x.
AppendsArcsOutOfX ==
    [][(pc = "ac3_loop" /\ arcs_list /= <<>>) =>
          \A n \in 1..Len(arcs_list') :
              n >= Len(arcs_list) => arcs_list'[n][1] = arcs_list[1][1]]_vars

\* ------------------------------------------------------------------------
\* Calls of ac3 from its first line
\* ------------------------------------------------------------------------

\* A solver after enforce_node_consistency, on which ac3 is about to be
\* called.
InitAc3Call ==
    /\ NoGames
    /\ crossword \in Crosswords
    /\ domains = NodeConsistent(InitDomains(crossword))
    /\ assignment = EmptyAssignment
    /\ Idle

\* ac3(): arcs is None, the worklist is built from the neighbours.  The
\* call records the list the loop starts from.
CallAc3 ==
    /\ pc = "api"
    /\ \E built \in InitialArcLists(crossword.variables) :
          /\ arcs_list' = built
          /\ call' = [op |-> "ac3", given |-> FALSE, arcs |-> <<>>,
                      worklist |-> built, before |-> domains]
    /\ pc' = "ac3_loop"
    /\ UNCHANGED <<games, crossword, domains, ac3_ret, stack, assignment, ret>>

\* ac3(arcs): the worklist is arcs.copy(); arcs is the list of the caller.
CallAc3WithArcs ==
    /\ pc = "api"
    /\ \E arcs \in GivenArcLists(crossword.variables) :
          /\ arcs_list' = arcs
          /\ call' = [op |-> "ac3", given |-> TRUE, arcs |-> arcs,
                      worklist |-> arcs, before |-> domains]
    /\ pc' = "ac3_loop"
    /\ UNCHANGED <<games, crossword, domains, ac3_ret, stack, assignment, ret>>

NextAc3Call ==
    \/ CallAc3
    \/ CallAc3WithArcs
    \/ Ac3Step
    \/ Ac3Return

SpecAc3Call == InitAc3Call /\ [][NextAc3Call]_vars

\* The number of places of a worklist that hold the arc (v, n) or (n, v).
ArcsBetween(worklist, v, n) ==
    Cardinality({k \in 1..Len(worklist) :
        worklist[k] = <<v, n>> \/ worklist[k] = <<n, v>>})

\* A worklist with one arc, in one direction, for every pair of
\* neighbours, and no other arc.
OneArcPerNeighborPair(variables, worklist) ==
    /\ \A v, n \in variables :
          (v /= n /\ Overlap(v, n) /= None) => ArcsBetween(worklist, v, n) = 1
    /\ \A k \in 1..Len(worklist) :
          /\ worklist[k][1] \in variables
          /\ worklist[k][2] \in Neighbors(variables, worklist[k][1])

GivenArcsKept ==
    /\ call.op = "ac3"
    /\ call.given
    /\ pc = "backtrack"
    /\ Len(call.arcs) = 1
    /\ \E x \in crossword.variables :
          /\ domains[x] /= call.before[x]
          /\ domains[x] /= {}
          /\ Cardinality(Neighbors(crossword.variables, x)) = 2

\* ------------------------------------------------------------------------
\* Properties of the steps of backtrack
\* ------------------------------------------------------------------------

\* The call on top of the stack of calls.
Top(calls) == calls[Len(calls)]

\* C24: a call of backtrack takes its candidates from the list
\* order_domain_values returned for its variable, one after the other from
\* the head of the list; it makes the recursive call with assignment plus
\* {var: value} when consistent says True of it and only then; and once a
\* call has returned an assignment, every enclosing call returns that
\* assignment and tries no other candidate, until solve() returns it.
C24_FirstSuccessWins ==
    [][/\ (pc = "bt_call" /\ pc' = "bt_loop") =>
             /\ Top(stack').assignment = assignment
             /\ Top(stack').var \in SelectUnassignedVariable(crossword, domains, assignment)
             /\ Top(stack').values \in
                   OrderDomainValues(crossword, domains, Top(stack').var, assignment)
       /\ (pc = "bt_loop" /\ Top(stack).values /= <<>>) =>
             LET trial == (Top(stack).var :> Head(Top(stack).values))
                              @@ Top(stack).assignment
             IN  /\ Len(stack') = Len(stack)
                 /\ Top(stack').values = Tail(Top(stack).values)
                 /\ IF Consistent(trial)
                    THEN pc' = "bt_call" /\ assignment' = trial
                    ELSE pc' = "bt_loop"
       /\ (pc' = "bt_call" /\ pc /= "backtrack") =>
             (pc = "bt_loop" /\ Consistent(assignment'))
       /\ (pc = "bt_return" /\ ret /= NoResult) =>
             /\ ret' = ret
             /\ pc' \in {"bt_return", "done"}
             /\ Len(stack') <= Len(stack)
             /\ \A i \in 1..Len(stack') : stack'[i] = stack[i]
             /\ (pc' = "bt_return") <=> (Len(stack') = Len(stack) - 1)]_vars

\* C24 witness: the innermost of three calls has returned an assignment to
\* a call that has a caller of its own, and the outermost call holds a
\* candidate it has not tried.
C24_Witness ==
    /\ pc = "bt_return"
    /\ ret /= NoResult
    /\ Len(stack) = 2
    /\ stack[1].values /= <<>>
    /\ Cardinality(domains[stack[2].var]) = 2

\* The calls of backtrack that are active: those of the stack, and the one
\* being entered.
Activations == Len(stack) + (IF pc = "bt_call" THEN 1 ELSE 0)

\* a assigns exactly n distinct variables of the crossword.
AssignsVariables(a, n) ==
    /\ DOMAIN a \subseteq crossword.variables
    /\ Cardinality(DOMAIN a) = n

\* C25: at every point of a run of backtrack({}) the active calls are at
\* most the number of variables plus one, and the call at depth d (the
\* outermost at depth 0) holds an assignment of exactly d distinct
\* variables of the crossword.
C25_DepthBoundedByVariables ==
    (pc \in {"bt_call", "bt_loop", "bt_return"}) =>
        /\ Activations <= Cardinality(crossword.variables) + 1
        /\ \A i \in 1..Len(stack) : AssignsVariables(stack[i].assignment, i - 1)
        /\ pc = "bt_call" => AssignsVariables(assignment, Len(stack))

\* C25 witness: on a puzzle of several variables the calls are as many as
\* the variables plus one, the innermost holding a complete assignment.
C25_Witness ==
    /\ pc = "bt_call"
    /\ Cardinality(crossword.variables) >= 2
    /\ Activations = Cardinality(crossword.variables) + 1
    /\ DOMAIN assignment = crossword.variables

\* ------------------------------------------------------------------------
\* Properties of the domains across solve()
\* ------------------------------------------------------------------------

\* The domains hold every word of every solution of the puzzle.
SolutionsKept ==
    \A A \in Solutions(crossword) :
        \A v \in crossword.variables : A[v] \in domains[v]

\* C26: in every state of solve(), and so after enforce_node_consistency
\* and after ac3, whatever ac3 returns, every word that a complete valid
\* assignment of the puzzle gives to a variable is in the domain of that
\* variable.
C26_PropagationKeepsSolutions == SolutionsKept

\* C26 witness: ac3 has returned on a puzzle that has a solution, after
\* removing a word from a domain.
C26_Witness ==
    /\ pc = "backtrack"
    /\ Solutions(crossword) /= {}
    /\ \E v \in crossword.variables :
          domains[v] /= NodeConsistent(InitDomains(crossword))[v]

\* ------------------------------------------------------------------------
\* Any sequence of calls of the solver's methods
\* ------------------------------------------------------------------------

\* The places between two calls: enforce_node_consistency has returned
\* ("ac3"), ac3 has returned ("backtrack"), backtrack has returned ("done").
BetweenCalls == {"ac3", "backtrack", "done"}

\* The caller goes on with enforce_node_consistency ("solve"), ac3 or
\* backtrack({}), whichever method returned last; the locals of the method
\* that returned are gone.
CallAnother ==
    /\ pc \in BetweenCalls
    /\ pc' \in {"solve", "ac3", "backtrack"}
    /\ arcs_list' = <<>>
    /\ ac3_ret' = NotReturned
    /\ stack' = <<>>
    /\ assignment' = EmptyAssignment
    /\ ret' = NoResult
    /\ UNCHANGED <<games, crossword, domains, call>>

\* The caller calls revise(x, y) between two calls of the other methods.
CallReviseBetween ==
    /\ pc \in BetweenCalls
    /\ \E x, y \in crossword.variables :
          /\ x /= y
          /\ domains' = Revise(domains, x, y).domains
    /\ UNCHANGED <<games, crossword, pc, arcs_list, ac3_ret, stack, assignment,
                   ret, call>>

NextSequence ==
    \/ Next
    \/ CallAnother
    \/ CallReviseBetween

\* A new solver on which enforce_node_consistency is called, and then
\* enforce_node_consistency, revise, ac3 and backtrack in any order.
SpecSequence == Init /\ [][NextSequence]_vars

\* C27: no step of enforce_node_consistency, revise, ac3 or backtrack, in
\* any sequence of their calls, adds a word to a domain: the domain of each
\* variable after the step is a subset of its domain before, and so of the
\* vocabulary it was initialised with.
C27_DomainsOnlyShrink ==
    [][/\ DOMAIN domains' = DOMAIN domains
       /\ \A v \in DOMAIN domains :
             /\ domains'[v] \subseteq domains[v]
             /\ domains'[v] \subseteq crossword.words]_vars

\* C27 witness: backtrack has returned, after enforce_node_consistency
\* removed a word from a domain and revise removed a word from another.
C27_Witness ==
    /\ pc = "done"
    /\ \E u, v \in crossword.variables :
          /\ NodeConsistent(InitDomains(crossword))[u] /= crossword.words
          /\ domains[v] /= NodeConsistent(InitDomains(crossword))[v]

\* ------------------------------------------------------------------------
\* Termination of backtrack
\* ------------------------------------------------------------------------

\* solve() as the interpreter runs it: a step that can be taken is taken.
SpecFair == Init /\ [][Next]_vars /\ WF_vars(Next)

\* backtrack({}) has returned to solve(): a complete assignment, or None.
BacktrackReturned ==
    /\ pc = "done"
    /\ stack = <<>>
    /\ \/ ret = NoResult
       \/ AssignmentComplete(crossword, ret[1])

\* C28: on every puzzle, backtrack({}) returns, a complete assignment or
\* None.
C28_BacktrackTerminates == <>BacktrackReturned

\* C28 witness: backtrack({}) returned None on a puzzle of several
\* variables after trying, for its first variable, more than one word.
C28_Witness ==
    /\ BacktrackReturned
    /\ ret = NoResult
    /\ Cardinality(crossword.variables) >= 2
    /\ \A v \in crossword.variables : Cardinality(domains[v]) >= 2

\* ------------------------------------------------------------------------
\* Indexing of words and lists in solve()
\* ------------------------------------------------------------------------

\* The words of doms[x] and doms[y] that a loop over both compares at the
\* overlap of x and y have the lengths of x and y, and the offsets of the
\* overlap are indexes of them.
ComparesInRange(doms, x, y) ==
    (Overlap(x, y) /= None) =>
        \A wordx \in doms[x], wordy \in doms[y] :
            /\ Len(wordx) = x.length
            /\ Len(wordy) = y.length
            /\ Overlap(x, y)[1] < Len(wordx)
            /\ Overlap(x, y)[2] < Len(wordy)

\* C29: in a run of solve(), whenever revise is about to run on the arc at
\* the head of the worklist, and whenever the orderer is about to score
\* the words of the variable selected, the words compared at an overlap
\* have their variable's length, so that the offsets are in range;
\* whenever consistent is about to check a trial assignment, each word of
\* it has its variable's length; and select_unassigned_variable is called
\* with at least one variable unassigned.
C29_NoIndexOutOfRange ==
    /\ (pc = "ac3_loop" /\ arcs_list /= <<>>) =>
          ComparesInRange(domains, arcs_list[1][1], arcs_list[1][2])
    /\ (pc = "bt_call" /\ ~ AssignmentComplete(crossword, assignment)) =>
          /\ crossword.variables \ DOMAIN assignment /= {}
          /\ \A var, random_var \in crossword.variables \ DOMAIN assignment :
                var /= random_var => ComparesInRange(domains, var, random_var)
    /\ (pc = "bt_loop" /\ Top(stack).values /= <<>>) =>
          LET trial == (Top(stack).var :> Head(Top(stack).values))
                           @@ Top(stack).assignment
          IN  \A x \in DOMAIN trial :
                 /\ Len(trial[x]) = x.length
                 /\ \A y \in DOMAIN trial \ {x} :
                       (Overlap(x, y) /= None) =>
                           /\ Overlap(x, y)[1] < Len(trial[x])
                           /\ Overlap(x, y)[2] < Len(trial[y])

\* C29 witness: consistent is about to compare the words of two variables
\* of different lengths at their overlap, the vocabulary holding a word
\* shorter than the longer variable.
C29_Witness ==
    /\ pc = "bt_loop"
    /\ Len(stack) = 2
    /\ Top(stack).values /= <<>>
    /\ Overlap(stack[1].var, stack[2].var) /= None
    /\ stack[1].var.length /= stack[2].var.length

\* ------------------------------------------------------------------------
\* Any sequence of calls of add_knowledge
\* ------------------------------------------------------------------------

\* add_knowledge(cell, count) is called for any cell without a mine,
\* revealed before or not, with the number of mines around it, whether the
\* call before it returned or raised.
AddKnowledgeAnyCell ==
    /\ pc \in {"play", "raised"}
    /\ \E cell \in MsCells \ game :
          LET r == add_knowledge(ai, cell, nearby_mines(game, cell))
          IN  /\ ai' = r.ai
              /\ pc' = IF r.raised THEN "raised" ELSE "play"
    /\ UNCHANGED <<crossword, domains, arcs_list, ac3_ret, stack, assignment,
                   ret, call, board, game>>

NextKnowledge == AddKnowledgeAnyCell

SpecKnowledge == InitMinesweeper /\ [][NextKnowledge]_vars

\* A sentence that states the number of mines among its cells.
TrueSentence(sentence) ==
    Cardinality(sentence.cells \cap game) = sentence.count

\* C30: after any sequence of add_knowledge(cell, count) calls for cells
\* without a mine, count being the number of mines around the cell, no
\* cell of safes holds a mine, every cell of mines holds one, and every
\* sentence of knowledge states the number of mines among its cells.
C30_KnowledgeIsSound ==
    /\ ai.safes \cap game = {}
    /\ ai.mines \subseteq game
    /\ \A n \in 1..Len(ai.knowledge) : TrueSentence(ai.knowledge[n])

\* C30 witness: the AI has found a mine and a safe cell that was not
\* revealed, and holds a sentence of its own inference.
C30_Witness ==
    /\ ai.mines /= {}
    /\ ai.safes \ ai.moves_made /= {}
    /\ \E n \in 1..Len(ai.knowledge) :
          \A cell \in ai.moves_made :
              ai.knowledge[n].cells /= (Around(cell) \cap MsCells) \ (ai.mines \cup ai.safes)

====
